---- MODULE Spec2Model ----
(***************************************************************************)
(* Model of Cat-Ion/util: BitArray (src/BitArray.hpp), a bit-addressable   *)
(* view over a buffer of words, and BitStreamMatch                         *)
(* (src/BitStreamMatch.hpp), a Knuth-Morris-Pratt matcher fed one bit at a *)
(* time.                                                                   *)
(*                                                                         *)
(* Two specifications share the module:                                    *)
(*   Spec      the matcher: construction (init_table, step by step),       *)
(*             handle_bit and restart;                                     *)
(*   SpecBits  the bit view: get, set and flip over a buffer.              *)
(***************************************************************************)
EXTENDS Integers, Sequences, FiniteSets, TLC

\* ------------------------------------------------------------------------
\* Bounds of the model
\* ------------------------------------------------------------------------
\* largest NEEDLE_LEN instantiated
MaxNeedleLen == 4
\* largest number of bits fed to one matcher
MaxStream == 6
\* largest number of words in a BitArray buffer
MaxWords == 2
\* largest number of get/set/flip calls on one buffer
MaxOps == 1

\* ------------------------------------------------------------------------
\* Machine integers.  size_t and int are taken 16 bits wide (the narrowest
\* the language allows); only the wrap of -1 to the largest size_t and of
\* the largest size_t + 1 to 0 enters the code's behaviour.
\* ------------------------------------------------------------------------
SizeBits == 16
IntBits == 16
CharBits == 8

SizeMod == 2 ^ SizeBits
SIZE_MAX == SizeMod - 1

\* conversion of an integer value to size_t (modulo 2^SizeBits)
ToSize(v) == v % SizeMod
\* conversion of a size_t value to int (two's complement)
ToInt(v) == LET m == v % (2 ^ IntBits)
            IN  IF m >= 2 ^ (IntBits - 1) THEN m - 2 ^ IntBits ELSE m

\* ------------------------------------------------------------------------
\* Bitwise operations on words of n bits
\* ------------------------------------------------------------------------
RECURSIVE BitAnd(_, _, _)
BitAnd(a, b, n) ==
    IF n = 0 \/ a = 0 \/ b = 0 THEN 0
    ELSE (a % 2) * (b % 2) + 2 * BitAnd(a \div 2, b \div 2, n - 1)

RECURSIVE BitOr(_, _, _)
BitOr(a, b, n) ==
    IF n = 0 \/ (a = 0 /\ b = 0) THEN 0
    ELSE (IF a % 2 = 1 \/ b % 2 = 1 THEN 1 ELSE 0)
         + 2 * BitOr(a \div 2, b \div 2, n - 1)

\* ~a, truncated to n bits
BitNot(a, n) == (2 ^ n) - 1 - a
\* a << s, truncated to n bits
Shl(a, s, n) == (a * (2 ^ s)) % (2 ^ n)
\* a >> s
Shr(a, s) == a \div (2 ^ s)

\* ------------------------------------------------------------------------
\* BitArray<T>: T an unsigned type of ts = sizeof(T) * 8 bits, d the buffer
\* (a sequence of words, d[i + 1] being data[i])
\* ------------------------------------------------------------------------
\* TS = sizeof(T) * 8
TSof(sz) == sz * CharBits

word(ts, p) == p \div ts

\* variant of bit: least-significant bit first
bit_lsb(ts, p) == p % ts
bit(ts, p) == ts - 1 - (p % ts)

\* get(pos): 1 & (data[word(pos)] >> bit(pos))
get(d, ts, p) == BitAnd(1, Shr(d[word(ts, p) + 1], bit(ts, p)), ts) = 1

\* variant of set: clears with p &= mask, the complement forgotten
set_nomask(d, ts, p, val) ==
    LET w == word(ts, p) + 1
        m == Shl(1, bit(ts, p), ts)
    IN  [d EXCEPT ![w] = IF val THEN BitOr(d[w], m, ts) ELSE BitAnd(d[w], m, ts)]
\* set(pos, val): p |= T(1) << bit(pos), or p &= ~(T(1) << bit(pos))
set(d, ts, p, val) ==
    LET w == word(ts, p) + 1
        m == Shl(1, bit(ts, p), ts)
    IN  [d EXCEPT ![w] = IF val THEN BitOr(d[w], m, ts)
                                ELSE BitAnd(d[w], BitNot(m, ts), ts)]

\* reference::operator~ : the negation of the referenced bit
\* (variant) operator~ returning the bit itself
ref_not_same(d, ts, p) == get(d, ts, p)
ref_not(d, ts, p) == ~ get(d, ts, p)
\* reference::flip : *this = ~*this
flip(d, ts, p) == set(d, ts, p, ref_not(d, ts, p))

VARIABLES
    \* ---- BitStreamMatch<NEEDLE_LEN> ----
    needle_len,   \* NEEDLE_LEN
    needle,       \* the buffer behind BitArray<unsigned char const> needle
    table,        \* int table[needle_len]
    k,            \* size_t k
    pc,           \* "ctor", "while", "inner": inside the constructor;
                  \* "ready": constructed; "crashed": an out-of-range read
                  \* faulted; "none": no matcher (SpecBits)
    pos, cnd,     \* locals of init_table
    oob,          \* an out-of-range read has been performed
    table0,       \* the table as init_table left it
    fed,          \* the bits passed to handle_bit since construction or
                  \* the last restart()
    results,      \* the values handle_bit returned, one per bit of fed
    resetAt,      \* number of bits of fed before the last reported match
    restarted,    \* "no": restart() was never called; "mid": the last
                  \* restart() found k > 0; "idle": it found k = 0
    fk,           \* state of a second, freshly constructed matcher started
                  \* at the last restart() and fed the same bits
    fres,         \* what that matcher returned for the last bit
    \* ---- BitArray<T> ----
    sizeofT,      \* sizeof(T)
    data,         \* the wrapped buffer
    prev,         \* the buffer before the last call
    lastOp,       \* the last call: [op, pos, val, ret]
    nops,         \* number of calls made
    ex            \* the usage example being run: [step, a, b, c, init]

mvars == <<needle_len, needle, table, k, pc, pos, cnd, oob, table0,
           fed, results, resetAt, restarted, fk, fres>>
bvars == <<sizeofT, data, prev, lastOp, nops, ex>>
vars == <<needle_len, needle, table, k, pc, pos, cnd, oob, table0,
          fed, results, resetAt, restarted, fk, fres,
          sizeofT, data, prev, lastOp, nops, ex>>

NoOp == [op |-> "none", pos |-> 0, val |-> FALSE, ret |-> FALSE]

\* no usage example is being run
NoExample == [step |-> "none", a |-> 0, b |-> 0, c |-> 0, init |-> 0]


\* ------------------------------------------------------------------------
\* BitStreamMatch<NEEDLE_LEN>
\* ------------------------------------------------------------------------
\* the caller's buffer holds the needle in the fewest bytes that contain it
NeedleWords(n) == (n + CharBits - 1) \div CharBits

\* the buffers the model constructs matchers from: every n-bit needle,
\* the unused low bits of the last byte being 0
NeedleBuffers(n) ==
    {d \in [1..NeedleWords(n) -> 0..(2 ^ CharBits - 1)] :
        \A i \in n..(CharBits * NeedleWords(n) - 1) : ~ get(d, CharBits, i)}

\* needle[i] for an index inside the needle
p(i) == get(needle, CharBits, i)

\* what an int read from outside the table can yield; of all the values of
\* an int the model takes the sentinel, the first and the last index of the
\* table, and the first index past its end
Garbage == {-1, 0, needle_len - 1, needle_len}

\* the values the read needle[i] can yield: the buffer's bit, or anything
\* when word(i) lies outside the buffer
NeedleReads(i) ==
    IF word(CharBits, i) < Len(needle) THEN {get(needle, CharBits, i)}
    ELSE BOOLEAN

\* the values the read tab[i] can yield
TableReads(tab, i) == IF i < needle_len THEN {tab[i]} ELSE Garbage

\* index i is outside [0, NEEDLE_LEN - 1]
OutOfRange(i) == i >= needle_len

ctor_frame == UNCHANGED <<needle_len, needle, k, table0, fed, results,
                          resetAt, restarted, fk, fres>>

\* variant of init_table_begin: table[0] is left 0, no sentinel is stored
init_table_begin_zero ==
    /\ pc = "ctor"
    /\ pos' = 1
    /\ cnd' = 0
    /\ table' = table
    /\ pc' = "while"
    /\ UNCHANGED oob
    /\ ctor_frame
    /\ UNCHANGED bvars
\* init_table, up to the first test of the while loop
init_table_begin ==
    /\ pc = "ctor"
    /\ pos' = 1
    /\ cnd' = 0
    /\ table' = [table EXCEPT ![0] = ToInt(SIZE_MAX)]
    /\ pc' = "while"
    /\ UNCHANGED oob
    /\ ctor_frame
    /\ UNCHANGED bvars

\* variant of init_table_copy: stores cnd itself, as the plain border table
\* would
init_table_copy_cnd ==
    /\ pc = "while"
    /\ pos < needle_len
    /\ \E a \in NeedleReads(cnd) :
          /\ p(pos) = a
          /\ table' = [table EXCEPT ![pos] = ToInt(cnd)]
    /\ oob' = (oob \/ OutOfRange(cnd))
    /\ pos' = pos + 1
    /\ cnd' = ToSize(cnd + 1)
    /\ pc' = "while"
    /\ ctor_frame
    /\ UNCHANGED bvars
\* one pass of the while loop through the branch needle[pos] == needle[cnd]
init_table_copy ==
    /\ pc = "while"
    /\ pos < needle_len
    /\ \E a \in NeedleReads(cnd) :
          /\ p(pos) = a
          /\ \E t \in TableReads(table, cnd) :
                table' = [table EXCEPT ![pos] = t]
    /\ oob' = (oob \/ OutOfRange(cnd))
    /\ pos' = pos + 1
    /\ cnd' = ToSize(cnd + 1)
    /\ pc' = "while"
    /\ ctor_frame
    /\ UNCHANGED bvars

\* the else branch, up to the first test of the inner while loop
init_table_mismatch ==
    /\ pc = "while"
    /\ pos < needle_len
    /\ \E a \in NeedleReads(cnd) :
          /\ p(pos) # a
          /\ table' = [table EXCEPT ![pos] = ToInt(cnd)]
          /\ \E t \in TableReads(table, cnd) : cnd' = ToSize(t)
    /\ oob' = (oob \/ OutOfRange(cnd))
    /\ pc' = "inner"
    /\ UNCHANGED pos
    /\ ctor_frame
    /\ UNCHANGED bvars

\* one iteration of  while (cnd >= 0 && needle[pos] != needle[cnd])
init_table_fallback ==
    /\ pc = "inner"
    /\ cnd >= 0
    /\ \E a \in NeedleReads(cnd) :
          /\ p(pos) # a
          /\ \E t \in TableReads(table, cnd) : cnd' = ToSize(t)
    /\ oob' = (oob \/ OutOfRange(cnd))
    /\ UNCHANGED <<pc, pos, table>>
    /\ ctor_frame
    /\ UNCHANGED bvars

\* exit of the inner while loop, then pos++, cnd++
init_table_advance ==
    /\ pc = "inner"
    /\ \/ ~ (cnd >= 0)
       \/ \E a \in NeedleReads(cnd) : p(pos) = a
    /\ oob' = (oob \/ OutOfRange(cnd))
    /\ pos' = pos + 1
    /\ cnd' = ToSize(cnd + 1)
    /\ pc' = "while"
    /\ UNCHANGED table
    /\ ctor_frame
    /\ UNCHANGED bvars

\* exit of the while loop: the constructor returns
init_table_end ==
    /\ pc = "while"
    /\ ~ (pos < needle_len)
    /\ pc' = "ready"
    /\ table0' = table
    /\ pos' = 0
    /\ cnd' = 0
    /\ UNCHANGED <<needle_len, needle, table, k, oob, fed, results,
                   resetAt, restarted, fk, fres>>
    /\ UNCHANGED bvars

\* an out-of-range read hits unmapped memory and the program stops
fault ==
    /\ \/ pc = "while" /\ pos < needle_len /\ OutOfRange(cnd)
       \/ pc = "inner" /\ OutOfRange(cnd)
       \/ pc = "ready" /\ Len(fed) < MaxStream /\ OutOfRange(k)
    /\ pc' = "crashed"
    /\ oob' = TRUE
    /\ UNCHANGED <<needle_len, needle, table, k, pos, cnd, table0, fed,
                   results, resetAt, restarted, fk, fres>>
    /\ UNCHANGED bvars

\* variant of HandleBitStep: reports the match one state early as well
HandleBitStep_early(kk, a, t, b) ==
    LET k1 == IF a # b THEN ToSize(t) ELSE kk
    IN  IF k1 = ToSize(needle_len - 2) \/ k1 = ToSize(needle_len - 1)
        THEN [k |-> 0, ret |-> TRUE]
        ELSE [k |-> ToSize(k1 + 1), ret |-> FALSE]
\* the body of handle_bit in state kk, the read needle[kk] yielding a and
\* the read table[kk] yielding t
HandleBitStep(kk, a, t, b) ==
    LET k1 == IF a # b THEN ToSize(t) ELSE kk
    IN  IF k1 = ToSize(needle_len - 1)
        THEN [k |-> 0, ret |-> TRUE]
        ELSE [k |-> ToSize(k1 + 1), ret |-> FALSE]

handle_bit(b) ==
    /\ pc = "ready"
    /\ Len(fed) < MaxStream
    /\ \E a \in NeedleReads(k) : \E t \in TableReads(table, k) :
          LET r == HandleBitStep(k, a, t, b)
          IN  /\ k' = r.k
              /\ results' = Append(results, r.ret)
              /\ resetAt' = IF r.ret THEN Len(fed) + 1 ELSE resetAt
              /\ IF restarted # "no"
                 THEN \E fa \in NeedleReads(fk) :
                      \E ft \in TableReads(table0, fk) :
                         \* the same address read twice yields one value
                         /\ fk = k => fa = a
                         /\ (fk = k /\ table0 = table) => ft = t
                         /\ fk' = HandleBitStep(fk, fa, ft, b).k
                         /\ fres' = HandleBitStep(fk, fa, ft, b).ret
                 ELSE UNCHANGED <<fk, fres>>
    /\ fed' = Append(fed, b)
    /\ oob' = (oob \/ OutOfRange(k))
    /\ UNCHANGED <<needle_len, needle, table, pc, pos, cnd, table0,
                   restarted>>
    /\ UNCHANGED bvars

\* variant of restart: k is left as it was
restart_keep ==
    /\ pc = "ready"
    /\ k' = k
    /\ fed' = <<>>
    /\ results' = <<>>
    /\ resetAt' = 0
    /\ restarted' = (IF k # 0 THEN "mid" ELSE "idle")
    /\ fk' = 0
    /\ fres' = FALSE
    /\ UNCHANGED <<needle_len, needle, table, pc, pos, cnd, oob, table0>>
    /\ UNCHANGED bvars
\* variant of restart: the table is cleared along with k
restart_wipe ==
    /\ pc = "ready"
    /\ k' = 0
    /\ table' = [i \in 0..(needle_len - 1) |-> 0]
    /\ fed' = <<>>
    /\ results' = <<>>
    /\ resetAt' = 0
    /\ restarted' = (IF k # 0 THEN "mid" ELSE "idle")
    /\ fk' = 0
    /\ fres' = FALSE
    /\ UNCHANGED <<needle_len, needle, pc, pos, cnd, oob, table0>>
    /\ UNCHANGED bvars
\* restart(): k = 0.  The history starts afresh, and a second matcher,
\* fresh from its constructor, is started beside this one to compare the
\* two from here on.
restart ==
    /\ pc = "ready"
    /\ k' = 0
    /\ fed' = <<>>
    /\ results' = <<>>
    /\ resetAt' = 0
    /\ restarted' = (IF k # 0 THEN "mid" ELSE "idle")
    /\ fk' = 0
    /\ fres' = FALSE
    /\ UNCHANGED <<needle_len, needle, table, pc, pos, cnd, oob, table0>>
    /\ UNCHANGED bvars

get_matched_bits == k

Init ==
    /\ needle_len \in 1..MaxNeedleLen
    /\ needle \in NeedleBuffers(needle_len)
    /\ table = [i \in 0..(needle_len - 1) |-> 0]
    /\ k = 0
    /\ pc = "ctor"
    /\ pos = 0
    /\ cnd = 0
    /\ oob = FALSE
    /\ table0 = table
    /\ fed = <<>>
    /\ results = <<>>
    /\ resetAt = 0
    /\ restarted = "no"
    /\ fk = 0
    /\ fres = FALSE
    /\ sizeofT = 1
    /\ data = <<0>>
    /\ prev = <<0>>
    /\ lastOp = NoOp
    /\ nops = 0
    /\ ex = NoExample

Next ==
    \/ init_table_begin
    \/ init_table_copy
    \/ init_table_mismatch
    \/ init_table_fallback
    \/ init_table_advance
    \/ init_table_end
    \/ fault
    \/ \E b \in BOOLEAN : handle_bit(b)
    \/ restart

Spec == Init /\ [][Next]_vars


\* ------------------------------------------------------------------------
\* BitArray<T> over a caller-owned buffer
\* ------------------------------------------------------------------------
\* the word types instantiated: sizeof(T) of unsigned char and uint16_t
WordSizes == {1, 2}

TS == TSof(sizeofT)
\* the in-range bit indices of the buffer
Positions == 0..(TS * Len(data) - 1)
\* the largest value of a word
WordMax == (2 ^ TS) - 1

\* the words the model fills buffers with: 0, the 0x0042 of the usage
\* example, and all ones
InitialWords(sz) == <<0, 66, (2 ^ TSof(sz)) - 1>>

\* the buffers of n words the model wraps: the three words in turn, starting
\* from any of them
InitialBuffers(sz, n) ==
    {[i \in 1..n |-> InitialWords(sz)[((s + i - 1) % 3) + 1]] : s \in 0..2}

\* bar.get(pos), or static_cast<bool>(bar[pos])
BitArray_get(q) ==
    /\ nops < MaxOps
    /\ lastOp' = [op |-> "get", pos |-> q, val |-> FALSE,
                  ret |-> get(data, TS, q)]
    /\ prev' = data
    /\ nops' = nops + 1
    /\ UNCHANGED <<sizeofT, data, ex>>
    /\ UNCHANGED mvars

\* bar.set(pos, val), or bar[pos] = val
BitArray_set(q, v) ==
    /\ nops < MaxOps
    /\ data' = set(data, TS, q, v)
    /\ lastOp' = [op |-> "set", pos |-> q, val |-> v, ret |-> FALSE]
    /\ prev' = data
    /\ nops' = nops + 1
    /\ UNCHANGED <<sizeofT, ex>>
    /\ UNCHANGED mvars

\* bar[pos].flip()
reference_flip(q) ==
    /\ nops < MaxOps
    /\ data' = flip(data, TS, q)
    /\ lastOp' = [op |-> "flip", pos |-> q, val |-> FALSE, ret |-> FALSE]
    /\ prev' = data
    /\ nops' = nops + 1
    /\ UNCHANGED <<sizeofT, ex>>
    /\ UNCHANGED mvars

InitBits ==
    /\ sizeofT \in WordSizes
    /\ \E n \in 1..MaxWords : data \in InitialBuffers(sizeofT, n)
    /\ prev = data
    /\ lastOp = NoOp
    /\ nops = 0
    /\ ex = NoExample
    /\ needle_len = 1
    /\ needle = <<0>>
    /\ table = [i \in 0..0 |-> 0]
    /\ k = 0
    /\ pc = "none"
    /\ pos = 0
    /\ cnd = 0
    /\ oob = FALSE
    /\ table0 = table
    /\ fed = <<>>
    /\ results = <<>>
    /\ resetAt = 0
    /\ restarted = "no"
    /\ fk = 0
    /\ fres = FALSE

NextBits ==
    \/ \E q \in Positions : BitArray_get(q)
    \/ \E q \in Positions : \E v \in BOOLEAN : BitArray_set(q, v)
    \/ \E q \in Positions : reference_flip(q)

SpecBits == InitBits /\ [][NextBits]_vars

\* ------------------------------------------------------------------------
\* The usage example of BitArray's header comment, for any word type, any
\* initial word and any three bit positions a, b, c:
\*     T foo = init;  BitArray<T> bar(&foo);
\*     if (bar[c]) { bar[a] = bar[b] = true;  bar[c] = false; }
\* The header has T = uint16_t, init = 0x0042, a = 1, b = 2, c = 14.
\* ------------------------------------------------------------------------
\* reference::operator=(bool v): parent.set(pos, v)
ref_assign(d, ts, q, v) == set(d, ts, q, v)
\* reference::operator=(reference const &v): parent.set(pos, bool(v)), v
\* referring to bit r
ref_assign_ref(d, ts, q, r) == set(d, ts, q, get(d, ts, r))

\* if (bar[c])
example_if ==
    /\ ex.step = "if"
    /\ ex' = [ex EXCEPT !.step = IF get(data, TS, ex.c) THEN "assign"
                                 ELSE "skipped"]
    /\ UNCHANGED <<sizeofT, data, prev, lastOp, nops>>
    /\ UNCHANGED mvars

\* bar[a] = bar[b] = true
example_assign ==
    /\ ex.step = "assign"
    /\ data' = ref_assign_ref(ref_assign(data, TS, ex.b, TRUE), TS, ex.a, ex.b)
    /\ ex' = [ex EXCEPT !.step = "clear"]
    /\ UNCHANGED <<sizeofT, prev, lastOp, nops>>
    /\ UNCHANGED mvars

\* bar[c] = false
example_clear ==
    /\ ex.step = "clear"
    /\ data' = ref_assign(data, TS, ex.c, FALSE)
    /\ ex' = [ex EXCEPT !.step = "done"]
    /\ UNCHANGED <<sizeofT, prev, lastOp, nops>>
    /\ UNCHANGED mvars

InitExample ==
    /\ sizeofT \in WordSizes
    /\ data \in InitialBuffers(sizeofT, 1)
    /\ prev = data
    /\ lastOp = NoOp
    /\ nops = 0
    /\ \E a \in Positions : \E b \in Positions : \E c \in Positions :
          ex = [step |-> "if", a |-> a, b |-> b, c |-> c, init |-> data[1]]
    /\ needle_len = 1
    /\ needle = <<0>>
    /\ table = [i \in 0..0 |-> 0]
    /\ k = 0
    /\ pc = "none"
    /\ pos = 0
    /\ cnd = 0
    /\ oob = FALSE
    /\ table0 = table
    /\ fed = <<>>
    /\ results = <<>>
    /\ resetAt = 0
    /\ restarted = "no"
    /\ fk = 0
    /\ fres = FALSE

NextExample ==
    \/ example_if
    \/ example_assign
    \/ example_clear

SpecExample == InitExample /\ [][NextExample]_vars


\* the constructor's steps are taken as long as one is possible: a running
\* call is not suspended
Construct ==
    \/ init_table_begin
    \/ init_table_copy
    \/ init_table_mismatch
    \/ init_table_fallback
    \/ init_table_advance
    \/ init_table_end

SpecFair == Init /\ [][Next]_vars /\ WF_vars(Construct)

\* ------------------------------------------------------------------------
\* Reference notions the claims are stated with
\* ------------------------------------------------------------------------
Max(S) == CHOOSE x \in S : \A y \in S : y <= x

\* the last j bits of s are the needle bits p[0..j-1]
IsSuffixPrefix(s, j) ==
    /\ j <= Len(s)
    /\ \A i \in 1..j : s[Len(s) - j + i] = p(i - 1)

\* brute-force scan: the needle ends at bit i of stream s
NeedleEndsAt(s, i) == IsSuffixPrefix(SubSeq(s, 1, i), needle_len)

\* length of the longest needle prefix shorter than the needle that is a
\* suffix of s
LongestPrefixSuffix(s) ==
    Max({j \in 0..(needle_len - 1) : IsSuffixPrefix(s, j)})

\* the bits fed since the last construction, restart() or reported match
Since == SubSeq(fed, resetAt + 1, Len(fed))

\* the needle as a sequence of bits
NeedleBits == [i \in 1..needle_len |-> p(i - 1)]

\* b is the length of a proper border of p[0..n-1]
IsBorder(b, n) ==
    /\ b < n
    /\ \A i \in 0..(b - 1) : p(i) = p(n - b + i)

\* length of the longest proper border of p[0..n-1]
Border(n) == Max({b \in 0..(n - 1) : IsBorder(b, n)})

\* length of the longest proper border b of p[0..q-1] whose next bit p[b]
\* differs from p[q]; -1 when there is none
StrongBorder(q) ==
    Max({-1} \cup {b \in 0..(q - 1) : IsBorder(b, q) /\ p(b) # p(q)})

\* the first position whose bit differs from p[0]; the last position when
\* all bits are equal
FirstChange ==
    IF \E i \in 1..(needle_len - 1) : p(i) # p(0)
    THEN CHOOSE i \in 1..(needle_len - 1) :
            /\ p(i) # p(0)
            /\ \A j \in 1..(i - 1) : p(j) = p(0)
    ELSE needle_len - 1

\* ------------------------------------------------------------------------
\* Claims
\* ------------------------------------------------------------------------

\* C1 (as claimed): on a matcher that has not been restarted, handle_bit
\* returned true on exactly the bits at which the needle ends as a substring
\* of the stream fed so far, occurrences overlapping an earlier one included.
C1_ReportsEveryOccurrence ==
    (pc = "ready" /\ restarted = "no") =>
        \A i \in 1..Len(fed) : results[i] = NeedleEndsAt(fed, i)

\* C2: feeding a fresh matcher the needle's own bits in order, handle_bit
\* returns false for each of the first N-1 bits and true for the N-th, and
\* get_matched_bits() is 0 right after the true.
C2_ExactMatch ==
    (/\ pc = "ready"
     /\ restarted = "no"
     /\ Len(fed) <= needle_len
     /\ \A i \in 1..Len(fed) : fed[i] = p(i - 1)) =>
        /\ \A i \in 1..Len(fed) : results[i] = (i = needle_len)
        /\ Len(fed) = needle_len => get_matched_bits = 0

\* C2 witness: needle 101 fed 1,0,1 has returned false, false, true.
C2_Witness ==
    /\ pc = "ready"
    /\ needle_len = 3
    /\ NeedleBits = <<TRUE, FALSE, TRUE>>
    /\ restarted = "no"
    /\ fed = <<TRUE, FALSE, TRUE>>
    /\ results = <<FALSE, FALSE, TRUE>>
    /\ get_matched_bits = 0

\* C3 (as claimed): get_matched_bits() is the length of the longest needle
\* prefix, shorter than the needle, that is a suffix of the bits fed since
\* the last construction, restart() or reported match.
C3_MatchedBitsIsLongestPrefix ==
    pc = "ready" => get_matched_bits = LongestPrefixSuffix(Since)

\* C4 (as claimed): between calls the stored k lies in [0, N-1].
C4_StateInRange ==
    pc = "ready" => get_matched_bits \in 0..(needle_len - 1)

\* C5: restart() sets get_matched_bits() to 0 and leaves the table as the
\* constructor built it, and from then on the matcher's state and results
\* are those of a freshly constructed matcher fed the same bits.
C5_RestartIsFresh ==
    (pc = "ready" /\ restarted # "no") =>
        /\ table = table0
        /\ fed = <<>> => get_matched_bits = 0
        /\ get_matched_bits = fk
        /\ fed # <<>> => results[Len(fed)] = fres

\* C5 witness: restart() was called in mid-match, then the whole 3-bit
\* needle was fed and reported.
C5_Witness ==
    /\ pc = "ready"
    /\ needle_len = 3
    /\ restarted = "mid"
    /\ fed = NeedleBits
    /\ results = <<FALSE, FALSE, TRUE>>
    /\ fres = TRUE
    /\ get_matched_bits = 0

C7_TableFrozen ==
    [][pc = "ready" =>
         /\ table' = table
         /\ needle' = needle
         /\ needle_len' = needle_len]_vars

\* C7 witness: bits have been fed, a match reported and restart() called,
\* and the table is the one the constructor left.
C7_Witness ==
    /\ pc = "ready"
    /\ restarted = "mid"
    /\ needle_len >= 2
    /\ \E i \in 1..Len(fed) : results[i]
    /\ table = table0

\* C8 (as claimed): construction returns, and no call stops short of
\* returning.
C8_Terminates == <>(pc = "ready") /\ [](pc # "crashed")

\* C9: set(pos, v) makes get(pos) return v and leaves get(pos') as it was
\* for every other in-range pos', in the same word and in the others.
C9_SetGet ==
    lastOp.op = "set" =>
        /\ Len(data) = Len(prev)
        /\ get(data, TS, lastOp.pos) = lastOp.val
        /\ \A q \in Positions \ {lastOp.pos} :
              get(data, TS, q) = get(prev, TS, q)

\* C9 witness: a set on a two-word buffer that changed the addressed bit.
C9_Witness ==
    /\ lastOp.op = "set"
    /\ Len(data) = 2
    /\ get(prev, TS, lastOp.pos) # lastOp.val
    /\ get(data, TS, lastOp.pos) = lastOp.val
    /\ lastOp.pos >= TS

\* C10: get(pos) is bit number W-1-(pos mod W) of word pos div W, and
\* set(0, true) on a single word holding 0 leaves it holding 1 << (W-1).
C10_MsbFirst ==
    /\ \A q \in Positions :
          get(data, TS, q) =
             ((data[(q \div TS) + 1] \div (2 ^ (TS - 1 - (q % TS)))) % 2 = 1)
    /\ (/\ lastOp = [op |-> "set", pos |-> 0, val |-> TRUE, ret |-> FALSE]
        /\ prev = <<0>>) => data = <<2 ^ (TS - 1)>>

\* C10 witness: set(0, true) on one 16-bit word holding 0 gave 0x8000.
C10_Witness ==
    /\ lastOp = [op |-> "set", pos |-> 0, val |-> TRUE, ret |-> FALSE]
    /\ prev = <<0>>
    /\ TS = 16
    /\ data = <<32768>>


\* C11 (as claimed): in the header's usage example, a 16-bit word holding
\* 0x0042, reading bit 14 yields true, and after bar[1] = bar[2] = true and
\* bar[14] = false the word holds 0x3040.
C11_UsageExample ==
    (/\ sizeofT = 2
     /\ ex.init = 66
     /\ ex.a = 1 /\ ex.b = 2 /\ ex.c = 14) =>
        /\ ex.step # "skipped"
        /\ ex.step = "done" => data = <<12352>>

\* C12: for every in-range pos, flip(pos) leaves the buffer as
\* set(pos, !get(pos)) does, inverting that bit and no other, and a second
\* flip(pos) restores the buffer.
C12_Flip ==
    lastOp.op = "flip" =>
        /\ data = set(prev, TS, lastOp.pos, ~ get(prev, TS, lastOp.pos))
        /\ get(data, TS, lastOp.pos) = ~ get(prev, TS, lastOp.pos)
        /\ \A q \in Positions \ {lastOp.pos} :
              get(data, TS, q) = get(prev, TS, q)
        /\ flip(data, TS, lastOp.pos) = prev

\* C12 witness: a flip in the second word of a two-word buffer that changed
\* the buffer, and whose repetition changes it back.
C12_Witness ==
    /\ lastOp.op = "flip"
    /\ Len(data) = 2
    /\ lastOp.pos >= TS
    /\ data # prev
    /\ flip(data, TS, lastOp.pos) = prev

\* C13 (as claimed): during construction every index about to be used to
\* read needle or to read or write table (pos and cnd) lies in [0, N-1].
C13_IndicesInRange ==
    /\ (pc = "while" /\ pos < needle_len) =>
          (~ OutOfRange(pos) /\ ~ OutOfRange(cnd))
    /\ pc = "inner" => (~ OutOfRange(pos) /\ ~ OutOfRange(cnd))

\* position of the last report before bit i of the stream, 0 when none
LastReportBefore(i) == Max({0} \cup {j \in 1..(i - 1) : results[j]})

\* C14 (as claimed): whenever handle_bit returns true, at least N bits have
\* been fed since the last construction, restart() or reported match, and
\* the last N of them are the needle.
C14_NoFalsePositive ==
    \A i \in 1..Len(results) :
        results[i] =>
            /\ i - LastReportBefore(i) >= needle_len
            /\ NeedleEndsAt(fed, i)

\* bits j+1..i of the stream are the first i-j bits of the needle
NeedlePrefixFed(j, i) ==
    /\ i - j <= needle_len
    /\ \A m \in 1..(i - j) : fed[j + m] = p(m - 1)

\* C15 (as claimed): the report fires one step early; a matcher in state 0
\* fed N-1 bits of the needle returns true on the last of them.
C15_FiresEarly ==
    \A i \in 1..Len(results) :
        (/\ needle_len >= 2
         /\ NeedlePrefixFed(LastReportBefore(i), i)
         /\ i - LastReportBefore(i) = needle_len - 1) => results[i]

\* C15 (amended): the report does not fire early; a matcher in state 0
\* (after construction, restart() or a report) fed bits of the needle
\* returns false for each of the first N-1 and true on the N-th.
C15_FiresOnLastBit ==
    \A i \in 1..Len(results) :
        NeedlePrefixFed(LastReportBefore(i), i) =>
            (results[i] <=> i - LastReportBefore(i) = needle_len)

\* C15 witness: needle 110 fed 1,1,0,1,1,0 reported at bits 3 and 6 only,
\* the second time from the state 0 the first report left.
C15_Witness ==
    /\ needle_len = 3
    /\ NeedleBits = <<TRUE, TRUE, FALSE>>
    /\ fed = <<TRUE, TRUE, FALSE, TRUE, TRUE, FALSE>>
    /\ results = <<FALSE, FALSE, TRUE, FALSE, FALSE, TRUE>>

\* C16: a call of handle_bit in state k = 0 with a bit that differs from
\* p[0] returns false and leaves k at 0, for every N >= 1: table[0] is the
\* sentinel -1, which as a size_t is not N-1 and incremented wraps to 0.
C16_MismatchAtZero ==
    [][(/\ pc = "ready" /\ pc' = "ready"
        /\ get_matched_bits = 0
        /\ Len(fed') = Len(fed) + 1
        /\ fed'[Len(fed')] # p(0)) =>
            /\ table[0] = -1
            /\ ToSize(table[0]) # needle_len - 1
            /\ ToSize(ToSize(table[0]) + 1) = 0
            /\ results'[Len(results')] = FALSE
            /\ k' = 0]_vars

\* C16 witness: a one-bit needle was fed the other bit; no report, k is 0.
C16_Witness ==
    /\ pc = "ready"
    /\ needle_len = 1
    /\ Len(fed) >= 1
    /\ fed[Len(fed)] # p(0)
    /\ results[Len(fed)] = FALSE
    /\ get_matched_bits = 0

\* C17 (as claimed): whenever a call of handle_bit takes the fallback
\* k = table[k] and the new k is a valid index, the needle bit at the new k
\* equals the incoming bit.
C17_SingleFallback ==
    [][(/\ pc = "ready" /\ pc' = "ready"
        /\ Len(fed') = Len(fed) + 1
        /\ ~ OutOfRange(k)
        /\ fed'[Len(fed')] # p(k)
        /\ table[k] \in 0..(needle_len - 1)) =>
            p(table[k]) = fed'[Len(fed')]]_vars

\* the reports of a greedy left-to-right scan of stream s for occurrences
\* of the needle that do not overlap: bits i.. of s, the last occurrence
\* taken ending at bit r
RECURSIVE GreedyScan(_, _, _)
GreedyScan(s, i, r) ==
    IF i > Len(s) THEN <<>>
    ELSE LET taken == i - r >= needle_len /\ NeedleEndsAt(s, i)
         IN  <<taken>> \o GreedyScan(s, i + 1, IF taken THEN i ELSE r)

\* C18 (as claimed): on any stream fed since construction or restart(),
\* handle_bit returns true exactly at the ends of the greedy left-to-right
\* non-overlapping occurrences of the needle.
C18_GreedyNonOverlapping == results = GreedyScan(fed, 1, 0)

====
